---- MODULE Spec2Model ----
(***************************************************************************)
(* Model of lib/plugins/aws/deploy/lib/checkForChanges.js: the check that  *)
(* decides whether a deployment may be skipped (checkForChanges and the    *)
(* functions it chains) and the precompile step that deletes stale         *)
(* CloudWatch log subscription filters.                                    *)
(*                                                                         *)
(* Strings the code takes apart (object keys, filter names) are sequences  *)
(* of one-character strings.  Dates are natural numbers, the epoch being   *)
(* 0.  Content hashes are natural numbers ordered as their base64 strings  *)
(* are, the empty string being 0.                                          *)
(***************************************************************************)
EXTENDS Integers, Sequences, FiniteSets, Bags, TLC

VARIABLES
    options,          \* this.options: [force]
    service,          \* this.serverless.service: the declared functions
    bucketName,       \* this.bucketName
    stackName,        \* this.provider.naming.getStackName()
    shouldNotDeploy,  \* this.serverless.service.provider.shouldNotDeploy
    pc,               \* position of the checkForChanges promise chain
    rejection,        \* the reason checkForChanges was rejected with
    listing,          \* how the listObjectsV2 request settled
    objs,             \* what getMostRecentObjects resolved with
    heads,            \* the headObject requests of getObjectMetadata
    getFunctionResults, \* the per-function promises of the date scan
    couldNotAccessFunction, \* the flag of getFunctionsEarliestLastModifiedDate
    lastModifiedDate, \* what getFunctionsEarliestLastModifiedDate resolved with
    localHashes,      \* localHashes of checkIfDeploymentIsNecessary
    cliLog,           \* the messages passed to this.serverless.cli.log
    pairs,            \* the fixLogGroupSubscriptionFilters calls of this run
    describeRequests, \* the describeSubscriptionFilters requests sent
    requestCache,     \* the provider's request cache: log group -> request
    necessityChecked, \* checkIfDeploymentIsNecessary has resolved
    requests          \* bag of the provider requests issued so far

vars == <<options, service, bucketName, stackName, shouldNotDeploy, pc,
          rejection, listing, objs, heads, getFunctionResults, couldNotAccessFunction,
          lastModifiedDate, localHashes, cliLog, pairs, describeRequests,
          requestCache, necessityChecked, requests>>

----------------------------------------------------------------------------
(* Bounds of the model.                                                    *)

MaxObjects == 3      \* objects a listing holds at most
MaxTime == 2         \* latest date a response carries (dates are 1..MaxTime)
NumHashes == 2       \* distinct non-empty content hashes
MaxGateObjects == 3  \* objects of the generation the hash gate is run on
MaxSerial == 2       \* highest serial number an existing filter name carries

----------------------------------------------------------------------------
(* JavaScript values and string operations the code relies on.             *)

\* null, and a Date holding a number of milliseconds since the epoch
Null == [type |-> "null"]
DateOf(t) == [type |-> "Date", time |-> t]

\* UTF-16 code unit of the characters the model's strings are made of
CharCode(c) ==
    CASE c = "\n" -> 10
      [] c = "-" -> 45
      [] c = "/" -> 47
      [] c = "1" -> 49
      [] c = "2" -> 50
      [] c = "3" -> 51
      [] c = "A" -> 65
      [] c = "B" -> 66
      [] c = "F" -> 70
      [] c = "G" -> 71
      [] c = "a" -> 97
      [] c = "b" -> 98
      [] c = "f" -> 102
      [] c = "g" -> 103
      [] c = "s" -> 115
      [] c = "t" -> 116
      [] OTHER -> 120

\* a < b for strings: the order _.orderBy and Array.prototype.sort apply
RECURSIVE StringLess(_, _)
StringLess(a, b) ==
    IF b = <<>> THEN FALSE
    ELSE IF a = <<>> THEN TRUE
    ELSE IF Head(a) = Head(b) THEN StringLess(Tail(a), Tail(b))
    ELSE CharCode(Head(a)) < CharCode(Head(b))

\* String.prototype.lastIndexOf(c): 0-based, -1 when c does not occur
LastIndexOf(str, c) ==
    LET at == {i \in 1..Len(str) : str[i] = c}
    IN  IF at = {} THEN -1 ELSE (CHOOSE i \in at : \A j \in at : j <= i) - 1

\* String.prototype.substring(from, to): negative arguments count as 0
Substring(str, from, to) ==
    LET lo == IF from < 0 THEN 0 ELSE from
        hi == IF to < 0 THEN 0 ELSE to
    IN  SubSeq(str, lo + 1, hi)

\* String.prototype.includes on a message held as a sequence of phrases,
\* each phrase a sequence of strings
Includes(message, phrase) == \E i \in 1..Len(message) : message[i] = phrase

\* the sequences over S of length lo..hi
SeqsOf(S, lo, hi) == UNION {[1..n -> S] : n \in lo..hi}

\* the sequences over S without a repeated element, of length at most n
DistinctSeqs(S, n) ==
    {q \in SeqsOf(S, 0, n) : \A i, j \in 1..Len(q) : i # j => q[i] # q[j]}

----------------------------------------------------------------------------
(* getMostRecentObjects                                                    *)

BucketMissingPhrase == <<"The specified bucket does not exist">>

\* the ServerlessError built when the deployment bucket is gone
BucketMissingError(bucket, stack) ==
    [name |-> "ServerlessError",
     message |-> <<<<"The serverless deployment bucket \"">>, <<bucket>>,
                   <<"\" does not exist.">>,
                   <<"Create it manually if you want to reuse the CloudFormation stack \"">>,
                   stack, <<"\",">>,
                   <<"or delete the stack if it is no longer required.">>>>]

\* mutant: the test of the message is inverted
ListingRejectionInverted(reason, bucket, stack) ==
    IF Includes(reason.message, BucketMissingPhrase)
    THEN reason
    ELSE BucketMissingError(bucket, stack)

\* the .catch of the listObjectsV2 request: what the chain is rejected with
ListingRejection(reason, bucket, stack) ==
    IF ~Includes(reason.message, BucketMissingPhrase)
    THEN reason
    ELSE BucketMissingError(bucket, stack)

\* the directory of a key: the key up to its last '/'
Directory(key) == Substring(key, 0, LastIndexOf(key, "/"))

\* mutant: the objects are ordered by ascending key
OrderByKeyAsc(objects) ==
    SortSeq(objects, LAMBDA a, b : StringLess(a.Key, b.Key))

\* _.orderBy(objects, ['Key'], ['desc'])
OrderByKeyDesc(objects) ==
    SortSeq(objects, LAMBDA a, b : StringLess(b.Key, a.Key))

\* the .then of the listObjectsV2 request: what the chain resolves with
MostRecentObjects(result) ==
    IF "Contents" \in DOMAIN result /\ Len(result.Contents) > 0
    THEN LET ordered == OrderByKeyDesc(result.Contents)
             firstKey == ordered[1].Key
             directory == Directory(firstKey)
             SameDirectory(obj) == directory = Directory(obj.Key)
         IN  SelectSeq(ordered, SameDirectory)
    ELSE <<>>

----------------------------------------------------------------------------
(* getFunctionsEarliestLastModifiedDate                                    *)

\* mutant: a failed lookup counts as the latest date instead of the epoch
FunctionDateLatestOnError(outcome) ==
    IF outcome.ok
    THEN DateOf(outcome.res.Configuration.LastModified)
    ELSE DateOf(MaxTime)

\* the .then and .catch of one getFunction request: the Date the function's
\* promise resolves with
FunctionDate(outcome) ==
    IF outcome.ok
    THEN DateOf(outcome.res.Configuration.LastModified)
    ELSE DateOf(0)

\* mutant: every failed lookup raises couldNotAccessFunction
IsAccessDeniedOnAnyError(err) == TRUE

\* the test of the .catch that raises couldNotAccessFunction
IsAccessDenied(err) ==
    "providerError" \in DOMAIN err /\ err.providerError.statusCode = 403

\* results.reduce((currentMin, date) => ..., currentMin)
RECURSIVE ReduceMin(_, _)
ReduceMin(results, currentMin) ==
    IF results = <<>> THEN currentMin
    ELSE LET date == Head(results)
         IN  ReduceMin(Tail(results),
                       IF currentMin = Null \/ date.time < currentMin.time
                       THEN date ELSE currentMin)

EarliestDate(results) == ReduceMin(results, Null)

AccessDeniedWarning ==
    "WARNING: Not authorized to perform: lambda:GetFunction for at least one of the lambda functions. Deployment will not be skipped even if service files did not change. "

----------------------------------------------------------------------------
(* checkIfDeploymentIsNecessary                                            *)

EmptyHash == 0       \* the hash '' stands for: it sorts before every other

\* objects.map((object) => object.Metadata.filesha256 || '')
RemoteHashes(objects) ==
    [i \in 1..Len(objects) |->
        IF "filesha256" \in DOMAIN objects[i].Metadata
        THEN objects[i].Metadata.filesha256
        ELSE EmptyHash]

\* path.resolve(base, p): an absolute p stands, a relative one is appended
PathResolve(base, p) == IF p # <<>> /\ Head(p) = "/" THEN p ELSE base \o p

\* Array.from(new Set(paths)): each path once, in order of first occurrence
RECURSIVE UniquePaths(_)
UniquePaths(paths) ==
    IF paths = <<>> THEN <<>>
    ELSE LET front == UniquePaths(SubSeq(paths, 1, Len(paths) - 1))
             last == paths[Len(paths)]
         IN  IF \E i \in 1..Len(front) : front[i] = last
             THEN front ELSE Append(front, last)

ServicePath == <<"/", "svc">>
ServerlessDirPath == ServicePath \o <<".serverless">>

\* the zip files to hash: those globby finds under .serverless plus the
\* service's package.artifact, resolved and deduplicated
ZipFilePaths(disk) ==
    LET zipFiles == IF "artifact" \in DOMAIN disk
                    THEN Append(disk.globbed, PathResolve(ServicePath, disk.artifact))
                    ELSE disk.globbed
    IN  UniquePaths([i \in 1..Len(zipFiles) |->
                        PathResolve(ServerlessDirPath, zipFiles[i])])

\* zipFileHashes with localCfHash pushed at its end
LocalHashes(disk) ==
    LET zipFilePaths == ZipFilePaths(disk)
    IN  Append([i \in 1..Len(zipFilePaths) |-> disk.sha256[zipFilePaths[i]]],
               disk.localCfHash)

\* mutant: the comparison is >= instead of >
DateGreaterOrEqual(a, b) == a.time >= (IF b = Null THEN 0 ELSE b.time)

\* mutant: nothing is greater than null
DateGreaterUnlessNull(a, b) == b # Null /\ a.time > b.time

\* a > b of JavaScript for a Date a: null counts as 0, a Date as its time
DateGreater(a, b) == a.time > (IF b = Null THEN 0 ELSE b.time)

\* objects.some((object) => object.LastModified && object.LastModified > funcLastModifiedDate)
ChangedAfterDeploy(objects, funcLastModifiedDate) ==
    \E i \in 1..Len(objects) :
        /\ "LastModified" \in DOMAIN objects[i]
        /\ DateGreater(objects[i].LastModified, funcLastModifiedDate)

\* Array.prototype.sort() of an array of hashes
SortHashes(hashes) == SortSeq(hashes, LAMBDA a, b : a < b)

\* mutant: the hashes are compared as sets
AreHashSetsEqual(remote, local) ==
    {remote[i] : i \in DOMAIN remote} = {local[i] : i \in DOMAIN local}

\* _.isEqual(remoteHashes.sort(), localHashes.sort())
AreHashesEqual(remote, local) ==
    SortHashes(remote) = SortHashes(local)

\* mutant: the drift gate is left out
MaySkipOnEqualHashes(objects, funcLastModifiedDate, local) ==
    AreHashesEqual(RemoteHashes(objects), local)

\* the test that sets shouldNotDeploy
MaySkip(objects, funcLastModifiedDate, local) ==
    /\ ~ChangedAfterDeploy(objects, funcLastModifiedDate)
    /\ AreHashesEqual(RemoteHashes(objects), local)

\* what the evaluation logs once the local hashes are known
VerdictLog(objects, funcLastModifiedDate, local) ==
    IF MaySkip(objects, funcLastModifiedDate, local)
    THEN <<"Service files not changed. Skipping deployment...">>
    ELSE <<"NOT SKIPPING DEPLOYMENT">>
         \o (IF ChangedAfterDeploy(objects, funcLastModifiedDate)
             THEN <<"REASON: Objects have been changed AFTER functions last modifications (probably a failed deploy)">>
             ELSE <<>>)
         \o (IF ~AreHashesEqual(RemoteHashes(objects), local)
             THEN <<"REASON: Hashes are not equal">>
             ELSE <<>>)

----------------------------------------------------------------------------
(* What the provider and the local disk may answer.                        *)

Dates == 1..MaxTime
Hashes == 1..NumHashes

\* keys of the form {prefix}/{timestamp directory}/{file}: one object of an
\* older deployment and two of the latest
OlderKey == <<"s", "/", "1", "/", "a">>
LatestKeyA == <<"s", "/", "2", "/", "a">>
LatestKeyB == <<"s", "/", "2", "/", "b">>

\* a listing of the keys q, in the order of q
Listing(q) == [Contents |-> [i \in 1..Len(q) |-> [Key |-> q[i]]]]

\* the responses of listObjectsV2 a check is run against: nothing under the
\* prefix (with or without Contents), or an older deployment and a latest
\* one of one or two objects, in ascending order as S3 lists them
ListResults ==
    {Listing(<<>>), [KeyCount |-> 0],
     Listing(<<OlderKey, LatestKeyA>>),
     Listing(<<OlderKey, LatestKeyA, LatestKeyB>>)}

\* the errors listObjectsV2 is rejected with, as the provider passes them on
ListErrors ==
    {[name |-> "ServerlessError",
      message |-> <<BucketMissingPhrase>>,
      providerError |-> [code |-> "NoSuchBucket", statusCode |-> 404]],
     [name |-> "ServerlessError",
      message |-> <<<<"Access Denied">>>>,
      providerError |-> [code |-> "AccessDenied", statusCode |-> 403]],
     [name |-> "ServerlessError",
      message |-> <<<<"The specified bucket">>, <<"is not valid.">>>>,
      providerError |-> [code |-> "InvalidBucketName", statusCode |-> 400]]}

ListOutcomes ==
    {[ok |-> TRUE, result |-> r] : r \in ListResults}
    \cup {[ok |-> FALSE, reason |-> e] : e \in ListErrors}

\* the responses of headObject
HeadResults ==
    {[LastModified |-> DateOf(t), Metadata |-> [filesha256 |-> h]] :
        t \in Dates, h \in Hashes}
    \cup {[LastModified |-> DateOf(t), Metadata |-> <<>>] : t \in Dates}

HeadErrors == {[name |-> "Forbidden", message |-> <<<<"Forbidden">>>>]}

HeadOutcomes ==
    {[ok |-> TRUE, res |-> r] : r \in HeadResults}
    \cup {[ok |-> FALSE, reason |-> e] : e \in HeadErrors}

\* the outcomes of getFunction
FunctionOutcomes ==
    {[ok |-> TRUE, res |-> [Configuration |-> [LastModified |-> t]]] : t \in Dates}
    \cup {[ok |-> FALSE,
           err |-> [message |-> <<<<"not authorized">>>>,
                    providerError |-> [statusCode |-> 403]]],
          [ok |-> FALSE, err |-> [message |-> <<<<"Function not found">>>>]]}

\* the packaged service on disk: the zip files under .serverless, the
\* service's package.artifact when it declares one, the content hash of
\* every zip file and the hash of the normalized CloudFormation template
ZipA == ServerlessDirPath \o <<"a.zip">>
ZipC == ServicePath \o <<"c.zip">>
Disks ==
    LET withArtifact ==
            {[globbed |-> g, artifact |-> a, sha256 |-> h, localCfHash |-> c] :
                g \in {<<>>, <<<<"a.zip">>>>},
                a \in {<<".serverless", "a.zip">>, <<"c.zip">>},
                h \in [{ZipA, ZipC} -> Hashes],
                c \in Hashes}
        without ==
            {[globbed |-> g, sha256 |-> h, localCfHash |-> c] :
                g \in {<<>>, <<<<"a.zip">>>>},
                h \in [{ZipA, ZipC} -> Hashes],
                c \in Hashes}
    IN  withArtifact \cup without

----------------------------------------------------------------------------
(* checkLogGroupSubscriptionFilterResourceLimitExceeded and                *)
(* fixLogGroupSubscriptionFilters                                          *)

\* a JavaScript string value and undefined, where either may occur
Str(chars) == [type |-> "string", value |-> chars]
Undefined == [type |-> "undefined"]

\* str.replace(/\r?\n/g, '')
RECURSIVE StripNewlines(_)
StripNewlines(str) ==
    IF str = <<>> THEN <<>>
    ELSE IF Head(str) = "\n" THEN StripNewlines(Tail(str))
    ELSE IF Head(str) = "\r" /\ Len(str) >= 2 /\ str[2] = "\n"
         THEN StripNewlines(Tail(Tail(str)))
    ELSE <<Head(str)>> \o StripNewlines(Tail(str))

\* the log group an event with a cloudwatchLog binding names
LogGroupName(event) ==
    IF event.cloudwatchLog.typeof = "object"
    THEN StripNewlines(event.cloudwatchLog.logGroup)
    ELSE StripNewlines(event.cloudwatchLog.value)

\* functionObj.events.map(...): the parameters of the
\* fixLogGroupSubscriptionFilters calls of one function, serial counting
\* the cloudwatchLog events met so far
RECURSIVE EventParams(_, _, _, _, _)
EventParams(functionObj, events, serial, account, region) ==
    IF events = <<>> THEN <<>>
    ELSE IF "cloudwatchLog" \notin DOMAIN Head(events)
         THEN EventParams(functionObj, Tail(events), serial, account, region)
    ELSE <<[accountId |-> account.accountId,
            logGroupName |-> LogGroupName(Head(events)),
            functionName |-> functionObj.functionName,
            functionObj |-> functionObj,
            region |-> region,
            partition |-> account.partition,
            logSubscriptionSerialNumber |-> serial + 1]>>
         \o EventParams(functionObj, Tail(events), serial + 1, account, region)

\* mutant: the counter starts at 1, so that the first serial is 2
FunctionParamsCountingFromOne(functionObj, account, region) ==
    IF "events" \notin DOMAIN functionObj THEN <<>>
    ELSE EventParams(functionObj, functionObj.events, 1, account, region)

FunctionParams(functionObj, account, region) ==
    IF "events" \notin DOMAIN functionObj THEN <<>>
    ELSE EventParams(functionObj, functionObj.events, 0, account, region)

\* getAllFunctions().map(...): the calls of the whole service, in order
RECURSIVE AllParams(_, _, _)
AllParams(functions, account, region) ==
    IF functions = <<>> THEN <<>>
    ELSE FunctionParams(Head(functions), account, region)
         \o AllParams(Tail(functions), account, region)

\* str.split(sep)
RECURSIVE Split(_, _)
Split(str, sep) ==
    LET at == {i \in 1..Len(str) : str[i] = sep}
    IN  IF at = {} THEN <<str>>
        ELSE LET first == CHOOSE i \in at : \A j \in at : i <= j
             IN  <<SubSeq(str, 1, first - 1)>>
                 \o Split(SubSeq(str, first + 1, Len(str)), sep)

\* mutant: the segment after the first hyphen is taken
GetLogicalIdAfterFirstHyphen(filterName) ==
    LET split == Split(filterName, "-")
    IN  IF Len(split) >= 2 THEN Str(split[2]) ELSE Undefined

\* getLogicalIdFromFilterName: split[split.length - 2]
GetLogicalIdFromFilterName(filterName) ==
    LET split == Split(filterName, "-")
    IN  IF Len(split) >= 2 THEN Str(split[Len(split) - 1]) ELSE Undefined

\* `arn:${partition}:lambda:${region}:${accountId}:function:${functionObj.name}`
NewDestinationArn(params) ==
    <<"arn", params.partition, "lambda", params.region, params.accountId,
      "function", params.functionObj.name>>

\* mutant: the filter is kept when either the ARN or the logical id matches
MustDeleteWhenBothDiffer(params, response, newLogicalId) ==
    /\ Len(response.subscriptionFilters) > 0
    /\ LET subscriptionFilter == response.subscriptionFilters[1]
       IN  ~(\/ subscriptionFilter.destinationArn = NewDestinationArn(params)
             \/ GetLogicalIdFromFilterName(subscriptionFilter.filterName)
                    = newLogicalId)

\* mutant: only the destination ARN is compared
MustDeleteOnForeignArn(params, response, newLogicalId) ==
    /\ Len(response.subscriptionFilters) > 0
    /\ response.subscriptionFilters[1].destinationArn # NewDestinationArn(params)

\* the .then of describeSubscriptionFilters: whether the existing filter
\* is to be deleted
MustDelete(params, response, newLogicalId) ==
    /\ Len(response.subscriptionFilters) > 0
    /\ LET subscriptionFilter == response.subscriptionFilters[1]
       IN  ~(/\ subscriptionFilter.destinationArn = NewDestinationArn(params)
             /\ GetLogicalIdFromFilterName(subscriptionFilter.filterName)
                    = newLogicalId)

\* the deleteSubscriptionFilter request of a call
DeleteRequest(params, response) ==
    [method |-> "deleteSubscriptionFilter",
     params |-> [logGroupName |-> params.logGroupName,
                 filterName |-> response.subscriptionFilters[1].filterName]]

\* mutant: the request is made without the cache
DescribeOptionsWithoutCache == [useCache |-> FALSE]

\* the options the describeSubscriptionFilters request is made with
DescribeOptions == [useCache |-> TRUE]

----------------------------------------------------------------------------
(* Collaborators of the reconciler: naming, provider, account.             *)

ToUpperCase(c) ==
    CASE c = "a" -> "A" [] c = "b" -> "B" [] c = "f" -> "F" [] c = "g" -> "G"
      [] OTHER -> c

Digit(k) == CASE k = 1 -> "1" [] k = 2 -> "2" [] k = 3 -> "3" [] OTHER -> "9"

\* naming.getCloudWatchLogLogicalId(functionName, logsIndex): the
\* normalized function name, a fixed infix and the serial number
GetCloudWatchLogLogicalId(functionName, logsIndex) ==
    Str(<<ToUpperCase(Head(functionName))>> \o Tail(functionName)
        \o <<"LogsSubscriptionFilterCloudWatchLog", Digit(logsIndex)>>)

Region == "us-east-1"
Accounts == {[accountId |-> "123456789012", partition |-> "aws"]}

\* provider.request with useCache: the request already made for the same
\* parameters is reused; cache maps a log group name to its request
IsCached(cache, opts, logGroupName) ==
    opts.useCache /\ logGroupName \in DOMAIN cache

----------------------------------------------------------------------------
(* The services checked and what CloudWatch Logs may answer.               *)

FunctionObj(functionName) ==
    [functionName |-> functionName, name |-> <<"s", "v", "c", "-">> \o functionName]

WithEvents(functionObj, events) ==
    [functionName |-> functionObj.functionName, name |-> functionObj.name,
     events |-> events]

HttpEvent == [http |-> "GET /"]
LogEvent(logGroup) == [cloudwatchLog |-> [typeof |-> "string", value |-> logGroup]]
LogObjectEvent(logGroup) ==
    [cloudwatchLog |-> [typeof |-> "object", logGroup |-> logGroup]]

GroupA == <<"/", "a">>
GroupB == <<"/", "b">>

NoFunctions == [functions |-> <<>>]
TwoPlainFunctions ==
    [functions |-> <<FunctionObj(<<"f">>), WithEvents(FunctionObj(<<"g">>), <<HttpEvent>>)>>]
OneLogFunction ==
    [functions |-> <<WithEvents(FunctionObj(<<"f">>), <<LogEvent(GroupA)>>)>>]
SharedLogGroup ==
    [functions |-> <<WithEvents(FunctionObj(<<"f">>), <<LogEvent(GroupA)>>),
                     WithEvents(FunctionObj(<<"g">>),
                                <<LogObjectEvent(GroupA \o <<"\n">>)>>)>>]
TwoLogGroups ==
    [functions |-> <<WithEvents(FunctionObj(<<"f">>),
                                <<HttpEvent, LogEvent(GroupA), LogEvent(GroupB)>>)>>]

Services == {NoFunctions, TwoPlainFunctions, OneLogFunction}
ReconciledServices == {OneLogFunction, SharedLogGroup, TwoLogGroups}

\* {stack name}-{logical id}-{random alphanumeric characters}
FilterName(stack, logicalId) == stack \o <<"-">> \o logicalId.value \o <<"-", "A", "1">>

StaleArn(account) ==
    <<"arn", account.partition, "lambda", Region, account.accountId,
      "function", <<"o", "l", "d">>>>

\* the subscription filters a log group of the service may hold
Filters(svc, stack) ==
    LET n == Len(svc.functions)
        arns == {NewDestinationArn([partition |-> a.partition, region |-> Region,
                                    accountId |-> a.accountId,
                                    functionObj |-> svc.functions[i]]) :
                    a \in Accounts, i \in 1..n}
                \cup {StaleArn(a) : a \in Accounts}
        names == {FilterName(stack, GetCloudWatchLogLogicalId(svc.functions[i].functionName, k)) :
                    i \in 1..n, k \in 1..MaxSerial}
                 \cup {<<"a", "1">>}
    IN  {[filterName |-> f, destinationArn |-> d] : f \in names, d \in arns}

DescribeOutcomes(svc, stack) ==
    {[ok |-> TRUE, res |-> [subscriptionFilters |-> <<>>]]}
    \cup {[ok |-> TRUE, res |-> [subscriptionFilters |-> <<f>>]] : f \in Filters(svc, stack)}
    \cup {[ok |-> FALSE,
           err |-> [name |-> "ResourceNotFoundException",
                    message |-> <<<<"The specified log group does not exist.">>>>]]}

DeleteOutcomes ==
    {[ok |-> TRUE],
     [ok |-> FALSE,
      err |-> [name |-> "AccessDeniedException", message |-> <<<<"not authorized">>>>]]}

AccountOutcomes ==
    {[ok |-> TRUE, account |-> a] : a \in Accounts}
    \cup {[ok |-> FALSE,
           err |-> [name |-> "ExpiredToken", message |-> <<<<"The security token expired">>>>]]}

----------------------------------------------------------------------------
(* The state machine.                                                      *)

EmptyFunction == <<>>

\* the bag of the elements of a sequence
SeqToBag(q) ==
    [e \in {q[i] : i \in DOMAIN q} |-> Cardinality({i \in DOMAIN q : q[i] = e})]

Issued(method) ==
    LET sent == {r \in DOMAIN requests : r.method = method}
        RECURSIVE Sum(_)
        Sum(S) == IF S = {} THEN 0
                  ELSE LET r == CHOOSE r \in S : TRUE
                       IN  requests[r] + Sum(S \ {r})
    IN  Sum(sent)

Pending == [state |-> "pending"]

\* before checkForChanges is called, for a service, a deployment bucket and
\* a stack drawn from the given sets
InitWith(services, buckets, stacks) ==
    /\ options = [force |-> FALSE]
    /\ service \in services
    /\ bucketName \in buckets
    /\ stackName \in stacks
    /\ shouldNotDeploy = FALSE
    /\ pc = "idle"
    /\ rejection = <<>>
    /\ listing = [state |-> "none"]
    /\ objs = <<>>
    /\ heads = <<>>
    /\ getFunctionResults = <<>>
    /\ couldNotAccessFunction = FALSE
    /\ lastModifiedDate = [state |-> "none"]
    /\ localHashes = <<>>
    /\ cliLog = <<>>
    /\ pairs = <<>>
    /\ describeRequests = <<>>
    /\ requestCache = EmptyFunction
    /\ necessityChecked = FALSE
    /\ requests = EmptyBag

DefaultBucket == "deployment-bucket"
DefaultStack == <<"s", "-", "t">>

Init == InitWith(Services, {DefaultBucket}, {DefaultStack})

\* mutant: the force option is not looked at
EntryPointIgnoringForce(force) == "listObjectsV2"

\* where checkForChanges goes after resetting the flag: with the force
\* option straight to the reconciler, otherwise to the listing
EntryPoint(force) == IF force THEN "getAccountInfo" ELSE "listObjectsV2"

\* the request the entry point sends
EntryRequest(entry) ==
    IF entry = "getAccountInfo"
    THEN [method |-> "getAccountInfo", params |-> <<>>]
    ELSE [method |-> "listObjectsV2", params |-> [Bucket |-> bucketName]]

\* mutant: the flag is not reset when checkForChanges is called
StartKeepingFlag(force) ==
    /\ pc \in {"idle", "resolved", "rejected"}
    /\ options' = [force |-> force]
    /\ rejection' = <<>>
    /\ listing' = [state |-> "none"]
    /\ objs' = <<>>
    /\ heads' = <<>>
    /\ getFunctionResults' = <<>>
    /\ couldNotAccessFunction' = FALSE
    /\ lastModifiedDate' = [state |-> "none"]
    /\ localHashes' = <<>>
    /\ cliLog' = <<>>
    /\ pairs' = <<>>
    /\ describeRequests' = <<>>
    /\ requestCache' = EmptyFunction
    /\ necessityChecked' = FALSE
    /\ pc' = EntryPoint(force)
    /\ requests' = SetToBag({EntryRequest(pc')})
    /\ UNCHANGED <<service, bucketName, stackName, shouldNotDeploy>>

\* checkForChanges is called: the flag is reset; with the force option the
\* reconciler is called at once, otherwise the bucket is listed
Start(force) ==
    /\ pc \in {"idle", "resolved", "rejected"}
    /\ options' = [force |-> force]
    /\ shouldNotDeploy' = FALSE
    /\ rejection' = <<>>
    /\ listing' = [state |-> "none"]
    /\ objs' = <<>>
    /\ heads' = <<>>
    /\ getFunctionResults' = <<>>
    /\ couldNotAccessFunction' = FALSE
    /\ lastModifiedDate' = [state |-> "none"]
    /\ localHashes' = <<>>
    /\ cliLog' = <<>>
    /\ pairs' = <<>>
    /\ describeRequests' = <<>>
    /\ requestCache' = EmptyFunction
    /\ necessityChecked' = FALSE
    /\ pc' = EntryPoint(force)
    /\ requests' = SetToBag({EntryRequest(pc')})
    /\ UNCHANGED <<service, bucketName, stackName>>

\* the requests BbPromise.all([getObjectMetadata(objs),
\* getFunctionsEarliestLastModifiedDate()]) sends
FetchRequests(objects, functions) ==
    [i \in 1..Len(objects) |->
        [method |-> "headObject",
         params |-> [Bucket |-> bucketName, Key |-> objects[i].Key]]]
    \o [i \in 1..Len(functions) |->
        [method |-> "getFunction",
         params |-> [FunctionName |-> functions[i].name]]]

\* listObjectsV2 settles: getMostRecentObjects rejects, or resolves and the
\* headObject and getFunction requests are sent
ListObjectsSettle(outcome) ==
    /\ pc = "listObjectsV2"
    /\ listing' = [state |-> "settled", outcome |-> outcome]
    /\ IF outcome.ok
       THEN LET mostRecentObjects == MostRecentObjects(outcome.result)
            IN  /\ objs' = mostRecentObjects
                /\ heads' = [i \in 1..Len(mostRecentObjects) |-> Pending]
                /\ getFunctionResults' = [i \in 1..Len(service.functions) |-> Pending]
                /\ lastModifiedDate' = Pending
                /\ requests' = requests (+) SeqToBag(FetchRequests(mostRecentObjects,
                                                                   service.functions))
                /\ pc' = "fetch"
                /\ UNCHANGED rejection
       ELSE /\ rejection' = <<ListingRejection(outcome.reason, bucketName, stackName)>>
            /\ pc' = "rejected"
            /\ UNCHANGED <<objs, heads, getFunctionResults, lastModifiedDate, requests>>
    /\ UNCHANGED <<options, service, bucketName, stackName, shouldNotDeploy,
                   couldNotAccessFunction, localHashes, cliLog, pairs,
                   describeRequests, requestCache, necessityChecked>>

ListObjectsRespond == \E outcome \in ListOutcomes : ListObjectsSettle(outcome)

\* mutant: a failed headObject request leaves the chain going
HeadObjectRespondToleratingFailure(i) ==
    /\ pc = "fetch"
    /\ heads[i] = Pending
    /\ \E outcome \in HeadOutcomes :
        heads' = [heads EXCEPT
                     ![i] = IF outcome.ok
                            THEN [state |-> "ok", res |-> outcome.res]
                            ELSE [state |-> "failed"]]
    /\ UNCHANGED <<listing, options, service, bucketName, stackName, shouldNotDeploy, objs,
                   getFunctionResults, couldNotAccessFunction, lastModifiedDate,
                   localHashes, cliLog, pairs, describeRequests, requestCache,
                   necessityChecked, requests, pc, rejection>>

\* one headObject request settles; a failure rejects the whole chain
HeadObjectRespond(i) ==
    /\ pc = "fetch"
    /\ heads[i] = Pending
    /\ \E outcome \in HeadOutcomes :
        IF outcome.ok
        THEN /\ heads' = [heads EXCEPT ![i] = [state |-> "ok", res |-> outcome.res]]
             /\ UNCHANGED <<pc, rejection>>
        ELSE /\ heads' = [heads EXCEPT ![i] = [state |-> "failed"]]
             /\ rejection' = <<outcome.reason>>
             /\ pc' = "rejected"
    /\ UNCHANGED <<listing, options, service, bucketName, stackName, shouldNotDeploy, objs,
                   getFunctionResults, couldNotAccessFunction, lastModifiedDate,
                   localHashes, cliLog, pairs, describeRequests, requestCache,
                   necessityChecked, requests>>

\* one getFunction request settles; the scan goes on when the chain has
\* been rejected by a headObject failure meanwhile
GetFunctionRespond(i) ==
    /\ pc \in {"fetch", "rejected"}
    /\ getFunctionResults[i] = Pending
    /\ \E outcome \in FunctionOutcomes :
        /\ getFunctionResults' =
              [getFunctionResults EXCEPT
                  ![i] = [state |-> "settled", outcome |-> outcome,
                          date |-> FunctionDate(outcome)]]
        /\ couldNotAccessFunction' =
              IF ~outcome.ok /\ IsAccessDenied(outcome.err)
              THEN TRUE ELSE couldNotAccessFunction
    /\ UNCHANGED <<listing, options, service, bucketName, stackName, shouldNotDeploy, pc,
                   rejection, objs, heads, lastModifiedDate, localHashes, cliLog,
                   pairs, describeRequests, requestCache, necessityChecked, requests>>

\* BbPromise.all(getFunctionResults) resolves: the warning, then the reduce
FunctionsScanned ==
    /\ pc \in {"fetch", "rejected"}
    /\ lastModifiedDate = Pending
    /\ \A i \in DOMAIN getFunctionResults : getFunctionResults[i].state = "settled"
    /\ cliLog' = IF couldNotAccessFunction
                 THEN Append(cliLog, AccessDeniedWarning) ELSE cliLog
    /\ lastModifiedDate' =
          [state |-> "resolved",
           value |-> EarliestDate([i \in DOMAIN getFunctionResults |->
                                      getFunctionResults[i].date])]
    /\ UNCHANGED <<listing, options, service, bucketName, stackName, shouldNotDeploy, pc,
                   rejection, objs, heads, getFunctionResults,
                   couldNotAccessFunction, localHashes, pairs, describeRequests,
                   requestCache, necessityChecked, requests>>

\* mutant: the reconciler is never called after the evaluation
AfterNecessityResolves(flag) == "resolved"

\* mutant: the reconciler is called whatever the verdict
AfterNecessityReconciles(flag) == "getAccountInfo"

\* the last .then of checkForChanges: resolve when the deployment is to be
\* skipped, otherwise call the reconciler
AfterNecessity(flag) == IF flag THEN "resolved" ELSE "getAccountInfo"

\* reading the zip files either gives the packaged service or fails
DiskOutcomes ==
    {[ok |-> TRUE, disk |-> d] : d \in Disks}
    \cup {[ok |-> FALSE,
           reason |-> [name |-> "ENOENT", message |-> <<<<"no such file or directory">>>>]]}

\* both branches of BbPromise.all have resolved: checkIfDeploymentIsNecessary
\* runs, then the last .then of checkForChanges either resolves (skip) or
\* calls the reconciler
CheckIfDeploymentIsNecessary ==
    /\ pc = "fetch"
    /\ \A i \in DOMAIN heads : heads[i].state = "ok"
    /\ lastModifiedDate.state = "resolved"
    /\ LET objects == [i \in DOMAIN heads |-> heads[i].res]
           funcLastModifiedDate == lastModifiedDate.value
       IN  IF Len(objects) > 0
           THEN \E outcome \in DiskOutcomes :
                  IF outcome.ok
                  THEN LET local == LocalHashes(outcome.disk)
                           skip == MaySkip(objects, funcLastModifiedDate, local)
                       IN  /\ localHashes' = SortHashes(local)
                           /\ shouldNotDeploy' = IF skip THEN TRUE ELSE shouldNotDeploy
                           /\ cliLog' = cliLog \o <<"IS DEPLOYMENT NECESSARY">>
                                          \o VerdictLog(objects, funcLastModifiedDate, local)
                           /\ necessityChecked' = TRUE
                           /\ pc' = AfterNecessity(shouldNotDeploy')
                           /\ UNCHANGED rejection
                  ELSE /\ rejection' = <<outcome.reason>>
                       /\ cliLog' = cliLog \o <<"IS DEPLOYMENT NECESSARY">>
                       /\ pc' = "rejected"
                       /\ UNCHANGED <<localHashes, shouldNotDeploy, necessityChecked>>
           ELSE /\ necessityChecked' = TRUE
                /\ pc' = AfterNecessity(shouldNotDeploy)
                /\ UNCHANGED <<localHashes, shouldNotDeploy, cliLog, rejection>>
    /\ pc' = "rejected" => UNCHANGED requests
    /\ pc' = "resolved" => UNCHANGED requests
    /\ pc' = "getAccountInfo" =>
          requests' = requests (+) SetToBag({EntryRequest(pc')})
    /\ UNCHANGED <<listing, options, service, bucketName, stackName, objs, heads,
                   getFunctionResults, couldNotAccessFunction, lastModifiedDate,
                   pairs, describeRequests, requestCache>>

\* the fixLogGroupSubscriptionFilters calls made for a list of parameters,
\* in order: each sends describeSubscriptionFilters unless the provider
\* holds a request for the same log group already
RECURSIVE CallFix(_, _)
CallFix(paramsList, acc) ==
    IF paramsList = <<>> THEN acc
    ELSE LET params == Head(paramsList)
             group == params.logGroupName
             cached == IsCached(acc.cache, DescribeOptions, group)
             request == IF cached THEN acc.cache[group] ELSE Len(acc.sent) + 1
         IN  CallFix(Tail(paramsList),
                     [calls |-> Append(acc.calls,
                                       [params |-> params, state |-> "describing",
                                        request |-> request]),
                      sent |-> IF cached THEN acc.sent
                               ELSE Append(acc.sent, [logGroupName |-> group,
                                                      state |-> "pending"]),
                      cache |-> IF DescribeOptions.useCache /\ ~cached
                                THEN (group :> request) @@ acc.cache
                                ELSE acc.cache])

\* getAccountInfo settles: a failure rejects the reconciler; otherwise every
\* function/event pair with a cloudwatchLog binding calls
\* fixLogGroupSubscriptionFilters
GetAccountInfoRespond ==
    /\ pc = "getAccountInfo"
    /\ \E outcome \in AccountOutcomes :
        IF outcome.ok
        THEN LET made == CallFix(AllParams(service.functions, outcome.account, Region),
                                 [calls |-> <<>>, sent |-> <<>>, cache |-> requestCache])
             IN  /\ pairs' = made.calls
                 /\ describeRequests' = made.sent
                 /\ requestCache' = made.cache
                 /\ requests' = requests (+) SeqToBag(
                        [i \in DOMAIN made.sent |->
                            [method |-> "describeSubscriptionFilters",
                             params |-> [logGroupName |-> made.sent[i].logGroupName],
                             id |-> i]])
                 /\ pc' = "fixFilters"
                 /\ UNCHANGED rejection
        ELSE /\ rejection' = <<outcome.err>>
             /\ pc' = "rejected"
             /\ UNCHANGED <<pairs, describeRequests, requestCache, requests>>
    /\ UNCHANGED <<listing, options, service, bucketName, stackName, shouldNotDeploy, objs,
                   heads, getFunctionResults, couldNotAccessFunction,
                   lastModifiedDate, localHashes, cliLog, necessityChecked>>

\* mutant: a failed describe request rejects the call
AfterDescribeRejecting(call, outcome) ==
    IF ~outcome.ok
    THEN [params |-> call.params, state |-> "rejected", request |-> call.request,
          reason |-> outcome.err]
    ELSE IF outcome.res.subscriptionFilters = <<>>
    THEN [params |-> call.params, state |-> "settled", request |-> call.request,
          value |-> "false"]
    ELSE IF MustDelete(call.params, outcome.res,
                       GetCloudWatchLogLogicalId(call.params.functionName,
                                                 call.params.logSubscriptionSerialNumber))
    THEN [params |-> call.params, state |-> "deleting", request |-> call.request,
          sent |-> DeleteRequest(call.params, outcome.res),
          oldLogicalId |-> GetLogicalIdFromFilterName(
                               outcome.res.subscriptionFilters[1].filterName)]
    ELSE [params |-> call.params, state |-> "settled", request |-> call.request,
          value |-> "false",
          oldLogicalId |-> GetLogicalIdFromFilterName(
                               outcome.res.subscriptionFilters[1].filterName)]

\* what a call waiting on a describe request does with its outcome: the
\* .then decides on the delete, the .catch turns a failure into undefined
AfterDescribe(call, outcome) ==
    LET after ==
            IF outcome.ok
               /\ MustDelete(call.params, outcome.res,
                             GetCloudWatchLogLogicalId(call.params.functionName,
                                                       call.params.logSubscriptionSerialNumber))
            THEN [params |-> call.params, state |-> "deleting", request |-> call.request,
                  sent |-> DeleteRequest(call.params, outcome.res)]
            ELSE [params |-> call.params, state |-> "settled", request |-> call.request,
                  value |-> IF outcome.ok THEN "false" ELSE "undefined"]
    IN  IF outcome.ok /\ Len(outcome.res.subscriptionFilters) > 0
        THEN after @@ [oldLogicalId |->
                          GetLogicalIdFromFilterName(
                              outcome.res.subscriptionFilters[1].filterName)]
        ELSE after

\* one describeSubscriptionFilters request settles: every call that waits
\* on it goes on
DescribeRespond(r) ==
    /\ pc = "fixFilters"
    /\ describeRequests[r].state = "pending"
    /\ \E outcome \in DescribeOutcomes(service, stackName) :
        LET after == [i \in DOMAIN pairs |->
                         IF pairs[i].request = r
                         THEN AfterDescribe(pairs[i], outcome) ELSE pairs[i]]
            deletes == SelectSeq([i \in DOMAIN pairs |->
                                     IF pairs[i].request = r /\ after[i].state = "deleting"
                                     THEN <<after[i].sent>> ELSE <<>>],
                                 LAMBDA d : d # <<>>)
        IN  /\ describeRequests' =
                  [describeRequests EXCEPT
                      ![r] = [logGroupName |-> describeRequests[r].logGroupName,
                              state |-> "settled", outcome |-> outcome]]
            /\ pairs' = after
            /\ requests' = requests (+) SeqToBag([i \in DOMAIN deletes |-> deletes[i][1]])
    /\ UNCHANGED <<listing, options, service, bucketName, stackName, shouldNotDeploy, pc,
                   rejection, objs, heads, getFunctionResults,
                   couldNotAccessFunction, lastModifiedDate, localHashes, cliLog,
                   requestCache, necessityChecked>>

\* one deleteSubscriptionFilter request settles: the call resolves with its
\* response, or the trailing .catch turns its failure into undefined
DeleteRespond(i) ==
    /\ pc = "fixFilters"
    /\ pairs[i].state = "deleting"
    /\ \E outcome \in DeleteOutcomes :
        pairs' = [pairs EXCEPT
                     ![i] = [params |-> pairs[i].params, state |-> "settled",
                             request |-> pairs[i].request, sent |-> pairs[i].sent,
                             oldLogicalId |-> pairs[i].oldLogicalId,
                             deleted |-> outcome.ok,
                             value |-> IF outcome.ok THEN "response" ELSE "undefined"]]
    /\ UNCHANGED <<listing, options, service, bucketName, stackName, shouldNotDeploy, pc,
                   rejection, objs, heads, getFunctionResults,
                   couldNotAccessFunction, lastModifiedDate, localHashes, cliLog,
                   describeRequests, requestCache, necessityChecked, requests>>

\* Promise.all over every call resolves: checkForChanges resolves
ReconcilerResolved ==
    /\ pc = "fixFilters"
    /\ \A i \in DOMAIN pairs : pairs[i].state = "settled"
    /\ pc' = "resolved"
    /\ UNCHANGED <<listing, options, service, bucketName, stackName, shouldNotDeploy,
                   rejection, objs, heads, getFunctionResults,
                   couldNotAccessFunction, lastModifiedDate, localHashes, cliLog,
                   pairs, describeRequests, requestCache, necessityChecked, requests>>

Next ==
    \/ \E force \in BOOLEAN : Start(force)
    \/ ListObjectsRespond
    \/ \E i \in DOMAIN heads : HeadObjectRespond(i)
    \/ \E i \in DOMAIN getFunctionResults : GetFunctionRespond(i)
    \/ FunctionsScanned
    \/ CheckIfDeploymentIsNecessary
    \/ GetAccountInfoRespond
    \/ \E r \in DOMAIN describeRequests : DescribeRespond(r)
    \/ \E i \in DOMAIN pairs : DeleteRespond(i)
    \/ ReconcilerResolved

Spec == Init /\ [][Next]_vars

\* the reconciler alone: checks run with the force option, which call it at
\* once, over the services that bind log groups
InitReconciler == InitWith(ReconciledServices, {DefaultBucket}, {DefaultStack})

NextReconciler ==
    \/ Start(TRUE)
    \/ GetAccountInfoRespond
    \/ \E r \in DOMAIN describeRequests : DescribeRespond(r)
    \/ \E i \in DOMAIN pairs : DeleteRespond(i)
    \/ ReconcilerResolved

SpecReconciler == InitReconciler /\ [][NextReconciler]_vars

\* the reconciler comparing filter names built on stack names with no, one
\* and two hyphens
StackNames == {<<"s", "t">>, DefaultStack, <<"s", "-", "t", "-", "1">>}

InitNaming == InitWith({OneLogFunction, SharedLogGroup}, {DefaultBucket}, StackNames)

SpecNaming == InitNaming /\ [][NextReconciler]_vars

\* the reconciler over services whose functions declare cloudwatchLog events
\* among others: a function without events, then one with two bindings
\* around an event of another kind, then one with a binding after such an
\* event
MixedEvents ==
    [functions |-> <<FunctionObj(<<"a">>),
                     WithEvents(FunctionObj(<<"f">>),
                                <<LogEvent(GroupA), HttpEvent, LogObjectEvent(GroupB)>>),
                     WithEvents(FunctionObj(<<"g">>), <<HttpEvent, LogEvent(GroupB)>>)>>]

InitSerial == InitWith({TwoLogGroups, SharedLogGroup, MixedEvents},
                       {DefaultBucket}, {DefaultStack})

SpecSerial == InitSerial /\ [][NextReconciler]_vars

\* getMostRecentObjects alone: the listing of a non-forced check settles in
\* any way, for several buckets and stacks; the keys listed may lie in
\* nested or sibling directories or hold no '/', in any order
ListedKeys ==
    {OlderKey, LatestKeyA, LatestKeyB, <<"a">>, <<"s", "/", "2", "/", "a", "/", "b">>}

AnyListOutcomes ==
    {[ok |-> TRUE, result |-> Listing(q)] : q \in DistinctSeqs(ListedKeys, MaxObjects)}
    \cup {[ok |-> TRUE, result |-> [KeyCount |-> 0]]}
    \cup {[ok |-> FALSE, reason |-> e] : e \in ListErrors}

InitListing ==
    InitWith({NoFunctions, OneLogFunction},
             {DefaultBucket, "other-bucket"}, {DefaultStack, <<"s", "t">>})

NextListing ==
    \/ Start(FALSE)
    \/ \E outcome \in AnyListOutcomes : ListObjectsSettle(outcome)

SpecListing == InitListing /\ [][NextListing]_vars

\* checkIfDeploymentIsNecessary alone: both branches of BbPromise.all have
\* resolved for a latest generation of up to MaxGateObjects objects, none of
\* them modified after the one function of the service
GateKeys == <<LatestKeyA, LatestKeyB, <<"s", "/", "2", "/", "c">>,
              <<"s", "/", "2", "/", "d">>, <<"s", "/", "2", "/", "e">>>>

InitGate ==
    /\ options = [force |-> FALSE]
    /\ service = OneLogFunction
    /\ bucketName = DefaultBucket
    /\ stackName = DefaultStack
    /\ shouldNotDeploy = FALSE
    /\ pc = "fetch"
    /\ rejection = <<>>
    /\ \E n \in 1..MaxGateObjects :
          /\ listing = [state |-> "settled",
                        outcome |-> [ok |-> TRUE,
                                     result |-> Listing(SubSeq(GateKeys, 1, n))]]
          /\ objs = MostRecentObjects(Listing(SubSeq(GateKeys, 1, n)))
          /\ heads \in [1..n -> {[state |-> "ok", res |-> r] :
                                    r \in {h \in HeadResults : h.LastModified.time = 1}}]
    /\ getFunctionResults =
          <<[state |-> "settled",
             outcome |-> [ok |-> TRUE,
                          res |-> [Configuration |-> [LastModified |-> MaxTime]]],
             date |-> DateOf(MaxTime)]>>
    /\ couldNotAccessFunction = FALSE
    /\ lastModifiedDate = [state |-> "resolved", value |-> DateOf(MaxTime)]
    /\ localHashes = <<>>
    /\ cliLog = <<>>
    /\ pairs = <<>>
    /\ describeRequests = <<>>
    /\ requestCache = EmptyFunction
    /\ necessityChecked = FALSE
    /\ requests = SetToBag({EntryRequest("listObjectsV2")})
                      (+) SeqToBag(FetchRequests(objs, service.functions))

NextGate == CheckIfDeploymentIsNecessary

SpecGate == InitGate /\ [][NextGate]_vars

----------------------------------------------------------------------------
(* What the claims speak of, read off the state.                           *)

Ended == pc \in {"resolved", "rejected"}
NonForced == pc # "idle" /\ ~options.force
Forced == pc # "idle" /\ options.force

\* the metadata of the objects of the latest generation, once all are in
AllHeadsIn == \A i \in DOMAIN heads : heads[i].state = "ok"

\* every getFunction lookup has settled
AllFunctionsIn ==
    \A i \in DOMAIN getFunctionResults : getFunctionResults[i].state = "settled"

\* the last-modified time of function i, a failed lookup counting as the epoch
FunctionTime(i) ==
    IF getFunctionResults[i].outcome.ok
    THEN getFunctionResults[i].outcome.res.Configuration.LastModified
    ELSE 0

\* the earliest function last-modified time is known and is t
EarliestFunctionTimeIs(t) ==
    /\ getFunctionResults # <<>>
    /\ AllFunctionsIn
    /\ \E i \in DOMAIN getFunctionResults : FunctionTime(i) = t
    /\ \A i \in DOMAIN getFunctionResults : FunctionTime(i) >= t

\* some object of the latest generation was modified after time t
ModifiedAfter(t) ==
    \E i \in DOMAIN heads :
        heads[i].state = "ok" /\ heads[i].res.LastModified.time > t

\* the content hashes of the remote objects, as a bag ('' when absent)
RemoteHashBag ==
    SeqToBag([i \in DOMAIN heads |->
                 IF "filesha256" \in DOMAIN heads[i].res.Metadata
                 THEN heads[i].res.Metadata.filesha256 ELSE EmptyHash])

\* the local hashes have been computed and equal the remote ones as bags
HashesMatch ==
    /\ heads # <<>> /\ AllHeadsIn
    /\ localHashes # <<>>
    /\ RemoteHashBag = SeqToBag(localHashes)

\* some getFunction lookup failed with status 403
SawAccessDenied ==
    \E i \in DOMAIN getFunctionResults :
        /\ getFunctionResults[i].state = "settled"
        /\ ~getFunctionResults[i].outcome.ok
        /\ "providerError" \in DOMAIN getFunctionResults[i].outcome.err
        /\ getFunctionResults[i].outcome.err.providerError.statusCode = 403

Logged(message) == \E i \in DOMAIN cliLog : cliLog[i] = message

\* number of cloudwatchLog events the service declares
LogEventCount ==
    LET CountOf(fn) ==
            IF "events" \in DOMAIN fn
            THEN Cardinality({k \in DOMAIN fn.events :
                                 "cloudwatchLog" \in DOMAIN fn.events[k]})
            ELSE 0
        RECURSIVE Total(_)
        Total(k) == IF k = 0 THEN 0 ELSE CountOf(service.functions[k]) + Total(k - 1)
    IN  Total(Len(service.functions))

\* the reconciler was called and every call it made has settled
ReconcilerCompleted ==
    /\ Issued("getAccountInfo") = 1
    /\ Len(pairs) = LogEventCount
    /\ \A i \in DOMAIN pairs : pairs[i].state = "settled"

\* delete requests sent for a log group
DeletesFor(group) ==
    LET sent == {r \in DOMAIN requests :
                    r.method = "deleteSubscriptionFilter"
                    /\ r.params.logGroupName = group}
        RECURSIVE Sum(_)
        Sum(S) == IF S = {} THEN 0
                  ELSE LET r == CHOOSE r \in S : TRUE
                       IN  requests[r] + Sum(S \ {r})
    IN  Sum(sent)

----------------------------------------------------------------------------
(* Claims.                                                                 *)

\* C1: in a non-forced check that has ended, if some object of the latest
\* generation was modified strictly after the earliest function
\* last-modified date, shouldNotDeploy is false, whatever the hashes.
C1_DriftNeverSkips ==
    (NonForced /\ Ended /\ \E t \in 0..MaxTime :
        EarliestFunctionTimeIs(t) /\ ModifiedAfter(t))
    => ~shouldNotDeploy

\* a check that resolved with drift although the hashes match
C1_Witness ==
    /\ NonForced /\ pc = "resolved" /\ HashesMatch /\ ~shouldNotDeploy
    /\ \E t \in 1..MaxTime : EarliestFunctionTimeIs(t) /\ ModifiedAfter(t)

\* C2: in a non-forced check that has ended with a non-empty latest
\* generation, remote hashes equal to the local hashes and no object modified
\* after the earliest function last-modified date, shouldNotDeploy is true.
C2_UnchangedServiceSkips ==
    (NonForced /\ Ended /\ HashesMatch /\ \E t \in 0..MaxTime :
        EarliestFunctionTimeIs(t) /\ ~ModifiedAfter(t))
    => shouldNotDeploy

\* a skipped check of two objects, one as old as the earliest function
C2_Witness ==
    /\ NonForced /\ pc = "resolved" /\ HashesMatch /\ shouldNotDeploy
    /\ Len(heads) = 2
    /\ \E t \in 1..MaxTime :
          /\ EarliestFunctionTimeIs(t) /\ ~ModifiedAfter(t)
          /\ \E i \in DOMAIN heads : heads[i].res.LastModified.time = t

\* C4: with the force option, shouldNotDeploy stays false, no listObjectsV2,
\* headObject or getFunction request is sent, the gates are never evaluated,
\* and the reconciler is called and has completed when the check resolves.
C4_ForceBypassesEvaluation ==
    Forced =>
        /\ ~shouldNotDeploy
        /\ Issued("listObjectsV2") = 0
        /\ Issued("headObject") = 0
        /\ Issued("getFunction") = 0
        /\ ~necessityChecked /\ localHashes = <<>> /\ cliLog = <<>>
        /\ Issued("getAccountInfo") = 1
        /\ (pc = "resolved" => ReconcilerCompleted)

\* a forced check that resolved after describing a log group
C4_Witness ==
    /\ Forced /\ pc = "resolved"
    /\ Issued("describeSubscriptionFilters") > 0

\* C6: in a non-forced check in which a getFunction lookup failed with
\* status 403, the warning is logged once the scan of the functions is over
\* (which it is when the check resolves) and shouldNotDeploy is false when the
\* check has ended, also when the hashes match.
C6_AccessDeniedNeverSkips ==
    (NonForced /\ SawAccessDenied) =>
        /\ (Ended => ~shouldNotDeploy)
        /\ (pc = "resolved" => lastModifiedDate.state = "resolved")
        /\ (lastModifiedDate.state = "resolved" => Logged(AccessDeniedWarning))

\* one function of two inaccessible, the hashes match, the check resolved
C6_Witness ==
    /\ NonForced /\ pc = "resolved" /\ SawAccessDenied /\ HashesMatch
    /\ Len(getFunctionResults) = 2
    /\ \E i \in DOMAIN getFunctionResults : getFunctionResults[i].outcome.ok
    /\ Logged(AccessDeniedWarning) /\ ~shouldNotDeploy

\* the listing settled with no object under the prefix
ListedNothing ==
    /\ listing.state = "settled"
    /\ listing.outcome.ok
    /\ ("Contents" \in DOMAIN listing.outcome.result
            => Len(listing.outcome.result.Contents) = 0)

\* C8: in a non-forced check whose listing returned no object, no headObject
\* request is sent, shouldNotDeploy is false, and the check does not end
\* without the reconciler having been called; it has completed when the
\* check resolves.
C8_EmptyListingDeploys ==
    (NonForced /\ ListedNothing) =>
        /\ Issued("headObject") = 0
        /\ ~shouldNotDeploy
        /\ (Ended => Issued("getAccountInfo") = 1)
        /\ (pc = "resolved" => ReconcilerCompleted)

\* an empty listing, and the check resolved after describing a log group
C8_Witness ==
    /\ NonForced /\ ListedNothing /\ pc = "resolved"
    /\ Issued("describeSubscriptionFilters") > 0

\* C9: in a non-forced check no describeSubscriptionFilters or
\* deleteSubscriptionFilter request is sent before the verdict is computed;
\* if the verdict is to skip, none is sent at all and the check resolves; if
\* not, the reconciler is called and has completed when the check resolves.
C9_ReconcilerAfterVerdict ==
    NonForced =>
        /\ (Issued("describeSubscriptionFilters") + Issued("deleteSubscriptionFilter")
                + Issued("getAccountInfo") > 0 => necessityChecked)
        /\ (shouldNotDeploy =>
               /\ Issued("describeSubscriptionFilters") = 0
               /\ Issued("deleteSubscriptionFilter") = 0
               /\ Issued("getAccountInfo") = 0
               /\ pc = "resolved")
        /\ (necessityChecked /\ ~shouldNotDeploy => Issued("getAccountInfo") = 1)
        /\ (necessityChecked /\ ~shouldNotDeploy /\ pc = "resolved"
               => ReconcilerCompleted)

\* a non-skipped check of a non-empty generation that resolved after a delete
C9_Witness ==
    /\ NonForced /\ pc = "resolved" /\ ~shouldNotDeploy /\ heads # <<>>
    /\ Issued("deleteSubscriptionFilter") > 0

\* the calls that wait or waited on describe request r
Binders(r) == {i \in DOMAIN pairs : pairs[i].request = r}

\* describe request r found a filter whose destination ARN is not the one
\* any call bound to r expects
FoundForeignFilter(r) ==
    /\ describeRequests[r].state = "settled"
    /\ describeRequests[r].outcome.ok
    /\ Len(describeRequests[r].outcome.res.subscriptionFilters) > 0
    /\ \A i \in Binders(r) :
          describeRequests[r].outcome.res.subscriptionFilters[1].destinationArn
              # NewDestinationArn(pairs[i].params)

\* describe request r found no filter
FoundNoFilter(r) ==
    /\ describeRequests[r].state = "settled"
    /\ describeRequests[r].outcome.ok
    /\ Len(describeRequests[r].outcome.res.subscriptionFilters) = 0

\* some deleteSubscriptionFilter request failed
DeleteFailed ==
    \E i \in DOMAIN pairs : "deleted" \in DOMAIN pairs[i] /\ ~pairs[i].deleted

\* C5 (as claimed; the code violates it): when a deleteSubscriptionFilter
\* request fails, checkForChanges does not resolve.
C5_DeleteFailurePropagates == DeleteFailed => pc # "resolved"

\* C7 (as claimed; refuted): when the reconciler has resolved, a log group
\* whose filter has a foreign destination ARN got exactly one delete request,
\* and a log group without filter got none.
C7_OneDeletePerLogGroup ==
    pc = "resolved" =>
        \A r \in DOMAIN describeRequests :
            /\ FoundNoFilter(r) => DeletesFor(describeRequests[r].logGroupName) = 0
            /\ FoundForeignFilter(r) => DeletesFor(describeRequests[r].logGroupName) = 1

\* C7 (amended): when the reconciler has resolved, a log group whose filter
\* has a foreign destination ARN got exactly one delete request from each
\* function/event pair that binds it, and a log group without filter got none.
C7_OneDeletePerPair ==
    pc = "resolved" =>
        \A r \in DOMAIN describeRequests :
            /\ FoundNoFilter(r) => DeletesFor(describeRequests[r].logGroupName) = 0
            /\ FoundForeignFilter(r) =>
                  /\ DeletesFor(describeRequests[r].logGroupName)
                        = Cardinality(Binders(r))
                  /\ \A i \in Binders(r) :
                        /\ "sent" \in DOMAIN pairs[i]
                        /\ pairs[i].sent.params.filterName =
                              describeRequests[r].outcome.res.subscriptionFilters[1].filterName

\* two pairs bind one log group that holds a foreign filter: two deletes
C7_Witness ==
    /\ pc = "resolved"
    /\ \E r \in DOMAIN describeRequests :
          /\ FoundForeignFilter(r)
          /\ Cardinality(Binders(r)) = 2
          /\ DeletesFor(describeRequests[r].logGroupName) = 2

\* C3: the hash gate is equality of multisets: once the local hashes are
\* known, the mismatch is reported exactly when the remote and the local
\* hashes differ as bags (whatever their order), and the flag is set only
\* when they are equal as bags.
C3_HashGateIsMultisetEquality ==
    (necessityChecked /\ localHashes # <<>>) =>
        /\ Logged("REASON: Hashes are not equal")
              <=> RemoteHashBag # SeqToBag(localHashes)
        /\ shouldNotDeploy => RemoteHashBag = SeqToBag(localHashes)

\* the same hashes on both sides, one of them twice locally and once
\* remotely: the gate fails
C3_Witness ==
    /\ necessityChecked /\ Len(localHashes) = 3 /\ ~shouldNotDeploy
    /\ BagToSet(RemoteHashBag) = BagToSet(SeqToBag(localHashes))
    /\ \E h \in Hashes :
          CopiesIn(h, SeqToBag(localHashes)) = 2 /\ CopiesIn(h, RemoteHashBag) = 1
    /\ Logged("REASON: Hashes are not equal")

\* the listing failed because the bucket does not exist
BucketDoesNotExist ==
    /\ listing.state = "settled"
    /\ ~listing.outcome.ok
    /\ listing.outcome.reason.providerError.code = "NoSuchBucket"

\* C10: a listing that failed because the bucket does not exist rejects
\* with a ServerlessError whose message names the bucket and the stack; any
\* other listing failure rejects with the reason itself; a listing that
\* succeeded does not reject.
C10_ListingFailures ==
    listing.state = "settled" =>
        IF listing.outcome.ok
        THEN pc # "rejected" /\ rejection = <<>>
        ELSE /\ pc = "rejected"
             /\ Len(rejection) = 1
             /\ IF BucketDoesNotExist
                THEN /\ rejection[1].name = "ServerlessError"
                     /\ rejection[1] # listing.outcome.reason
                     /\ \E i \in DOMAIN rejection[1].message :
                           rejection[1].message[i] = <<bucketName>>
                     /\ \E i \in DOMAIN rejection[1].message :
                           rejection[1].message[i] = stackName
                ELSE rejection[1] = listing.outcome.reason

\* the bucket is gone and the rejection names the bucket and the stack
C10_Witness ==
    /\ BucketDoesNotExist
    /\ pc = "rejected"
    /\ \E i \in DOMAIN rejection[1].message : rejection[1].message[i] = <<bucketName>>
    /\ \E i \in DOMAIN rejection[1].message : rejection[1].message[i] = stackName

\* the listing failed, or some headObject request did
ListingFailed == listing.state = "settled" /\ ~listing.outcome.ok
HeadFailed == \E i \in DOMAIN heads : heads[i].state = "failed"

\* C11: in a non-forced check whose listing or one of whose headObject
\* requests failed, the check is rejected, shouldNotDeploy is false, the
\* gates have not been evaluated and no reconciler request has been sent.
C11_FetchFailureAborts ==
    (NonForced /\ (ListingFailed \/ HeadFailed)) =>
        /\ pc = "rejected" /\ rejection # <<>>
        /\ ~shouldNotDeploy
        /\ ~necessityChecked /\ localHashes = <<>>
        /\ ~Logged("IS DEPLOYMENT NECESSARY")
        /\ Issued("getAccountInfo") = 0
        /\ Issued("describeSubscriptionFilters") = 0
        /\ Issued("deleteSubscriptionFilter") = 0

\* one of two headObject requests failed after the other had succeeded and
\* the scan of the functions had resolved
C11_Witness ==
    /\ NonForced /\ pc = "rejected" /\ HeadFailed
    /\ \E i \in DOMAIN heads : heads[i].state = "ok"
    /\ lastModifiedDate.state = "resolved"
    /\ rejection \in {<<e>> : e \in HeadErrors}

\* C12: when the service declares no function, the earliest date resolves
\* to null, and a non-forced check never has shouldNotDeploy true, whatever
\* the objects and hashes.
C12_NoFunctionNeverSkips ==
    (NonForced /\ service.functions = <<>>) =>
        /\ Issued("getFunction") = 0
        /\ (lastModifiedDate.state = "resolved" => lastModifiedDate.value = Null)
        /\ (necessityChecked => lastModifiedDate.state = "resolved")
        /\ ~shouldNotDeploy

\* no function, matching hashes, and the check resolved without skipping
C12_Witness ==
    /\ NonForced /\ service.functions = <<>> /\ pc = "resolved"
    /\ lastModifiedDate = [state |-> "resolved", value |-> Null]
    /\ HashesMatch /\ necessityChecked /\ ~shouldNotDeploy

\* the filter name call i compared
FilterNameOf(i) ==
    describeRequests[pairs[i].request].outcome.res.subscriptionFilters[1].filterName

HyphenFree(str) == \A k \in DOMAIN str : str[k] # "-"

\* C13: for a filter name {stack name}-{logical id}-{suffix} with a
\* hyphen-free logical id and suffix, whatever the hyphens of what precedes,
\* the logical id derived from the name is that logical id: the segment
\* between the last two hyphens.
C13_SecondToLastSegment ==
    \A i \in DOMAIN pairs :
        "oldLogicalId" \in DOMAIN pairs[i] =>
            LET name == FilterNameOf(i)
            IN  \A p, q \in DOMAIN name :
                    (/\ p < q /\ name[p] = "-" /\ name[q] = "-"
                     /\ HyphenFree(SubSeq(name, p + 1, q - 1))
                     /\ HyphenFree(SubSeq(name, q + 1, Len(name))))
                    => /\ pairs[i].oldLogicalId = Str(SubSeq(name, p + 1, q - 1))
                       /\ (SubSeq(name, 1, p - 1) = stackName
                              => name = FilterName(stackName, pairs[i].oldLogicalId))

\* the logical id was derived from a filter name whose stack name holds two
\* hyphens, and it is the one this deployment gives the call
C13_Witness ==
    /\ Len(Split(stackName, "-")) = 3
    /\ \E i \in DOMAIN pairs :
          /\ "oldLogicalId" \in DOMAIN pairs[i]
          /\ pairs[i].oldLogicalId =
                GetCloudWatchLogLogicalId(pairs[i].params.functionName,
                                          pairs[i].params.logSubscriptionSerialNumber)
          /\ FilterNameOf(i) = FilterName(stackName, pairs[i].oldLogicalId)

\* the log groups the calls of the reconciler name
BoundLogGroups == {pairs[i].params.logGroupName : i \in DOMAIN pairs}

\* C14: in one run of the reconciler, one describeSubscriptionFilters
\* request is sent for each log group bound, however many function/event
\* pairs bind it: pairs that bind the same log group wait on the same request.
C14_DescribeOncePerLogGroup ==
    /\ Issued("describeSubscriptionFilters") = Cardinality(BoundLogGroups)
    /\ \A i, j \in DOMAIN pairs :
          pairs[i].params.logGroupName = pairs[j].params.logGroupName
              => pairs[i].request = pairs[j].request
    /\ \A i \in DOMAIN pairs :
          describeRequests[pairs[i].request].logGroupName = pairs[i].params.logGroupName

\* two functions bind one log group; the run resolved after one describe
C14_Witness ==
    /\ pc = "resolved"
    /\ \E i, j \in DOMAIN pairs :
          /\ pairs[i].params.functionName # pairs[j].params.functionName
          /\ pairs[i].params.logGroupName = pairs[j].params.logGroupName
    /\ Issued("describeSubscriptionFilters") = 1

\* the describe request call i waits on was answered
Described(i) ==
    /\ describeRequests[pairs[i].request].state = "settled"
    /\ describeRequests[pairs[i].request].outcome.ok

FiltersFound(i) == describeRequests[pairs[i].request].outcome.res.subscriptionFilters

\* the filter found is the one this deployment would create for call i
FilterIsCurrent(i) ==
    /\ FiltersFound(i)[1].destinationArn =
          <<"arn", pairs[i].params.partition, "lambda", pairs[i].params.region,
            pairs[i].params.accountId, "function", pairs[i].params.functionObj.name>>
    /\ pairs[i].oldLogicalId =
          GetCloudWatchLogLogicalId(pairs[i].params.functionName,
                                    pairs[i].params.logSubscriptionSerialNumber)

\* C15: a call whose describe request was answered sends no delete when the
\* log group has no filter or when the destination ARN and the derived
\* logical id of the filter are those of this deployment; otherwise it sends
\* one deleteSubscriptionFilter for its log group and the name of the filter
\* found. No other delete is sent.
C15_DeleteDecisionPerPair ==
    /\ \A i \in DOMAIN pairs :
          Described(i) =>
              IF FiltersFound(i) = <<>> \/ FilterIsCurrent(i)
              THEN "sent" \notin DOMAIN pairs[i]
              ELSE /\ "sent" \in DOMAIN pairs[i]
                   /\ pairs[i].sent =
                         [method |-> "deleteSubscriptionFilter",
                          params |-> [logGroupName |-> pairs[i].params.logGroupName,
                                      filterName |-> FilterNameOf(i)]]
    /\ Issued("deleteSubscriptionFilter")
          = Cardinality({i \in DOMAIN pairs : "sent" \in DOMAIN pairs[i]})
    /\ \A i \in DOMAIN pairs : "sent" \in DOMAIN pairs[i] => Described(i)

\* the filter has the destination ARN of this deployment but the logical id
\* of another serial number: it is deleted; and a current filter is kept
C15_Witness ==
    /\ pc = "resolved"
    /\ \E i \in DOMAIN pairs :
          /\ Described(i) /\ FiltersFound(i) # <<>>
          /\ FiltersFound(i)[1].destinationArn = NewDestinationArn(pairs[i].params)
          /\ ~FilterIsCurrent(i)
          /\ "sent" \in DOMAIN pairs[i]
    /\ \E j \in DOMAIN pairs :
          /\ Described(j) /\ FiltersFound(j) # <<>> /\ FilterIsCurrent(j)
          /\ "sent" \notin DOMAIN pairs[j]

\* the describe request call i waits on failed
DescribeFailed(i) ==
    /\ describeRequests[pairs[i].request].state = "settled"
    /\ ~describeRequests[pairs[i].request].outcome.ok

\* C16: a call whose describe request failed sends no delete and settles
\* with undefined; the run is not rejected by it, and a call on another log
\* group still decides on what its own describe request returned and can
\* settle, so that the run resolves.
C16_DescribeFailureIsNoOp ==
    (\E i \in DOMAIN pairs : DescribeFailed(i)) =>
        /\ pc \in {"fixFilters", "resolved"} /\ rejection = <<>>
        /\ \A i \in DOMAIN pairs :
              DescribeFailed(i) =>
                  /\ pairs[i].state = "settled" /\ pairs[i].value = "undefined"
                  /\ "sent" \notin DOMAIN pairs[i]
        /\ \A j \in DOMAIN pairs :
              Described(j) =>
                  ("sent" \in DOMAIN pairs[j]
                      <=> (FiltersFound(j) # <<>> /\ ~FilterIsCurrent(j)))
        /\ (pc = "resolved" => \A j \in DOMAIN pairs : pairs[j].state = "settled")

\* the describe of one log group failed, the filter of the other was deleted
\* and the run resolved
C16_Witness ==
    /\ pc = "resolved"
    /\ \E i, j \in DOMAIN pairs :
          /\ DescribeFailed(i)
          /\ Described(j) /\ "deleted" \in DOMAIN pairs[j] /\ pairs[j].deleted

\* C17: the scan of the functions never fails: no check is rejected with
\* the error of a getFunction lookup, the scan resolves once every lookup has
\* settled, for a service with functions it resolves with the minimum of the
\* functions' dates, a failed lookup counting as the epoch, and the warning
\* is logged exactly when a lookup failed with status 403.
C17_EarliestDateNeverFails ==
    /\ \A o \in FunctionOutcomes : ~o.ok => rejection # <<o.err>>
    /\ lastModifiedDate.state \in {"none", "pending", "resolved"}
    /\ (lastModifiedDate.state = "resolved" /\ getFunctionResults # <<>>) =>
          /\ AllFunctionsIn
          /\ \E t \in 0..MaxTime :
                EarliestFunctionTimeIs(t) /\ lastModifiedDate.value = DateOf(t)
          /\ Logged(AccessDeniedWarning) <=> SawAccessDenied
    /\ (lastModifiedDate.state = "pending" /\ AllFunctionsIn) => ENABLED FunctionsScanned
    /\ (NonForced /\ necessityChecked) => lastModifiedDate.state = "resolved"

\* of two lookups one failed without status 403 and one gave a date: the
\* scan resolved with the epoch and without the warning
C17_Witness ==
    /\ lastModifiedDate = [state |-> "resolved", value |-> DateOf(0)]
    /\ Len(getFunctionResults) = 2
    /\ \E i, j \in DOMAIN getFunctionResults :
          /\ getFunctionResults[i].outcome.ok
          /\ ~getFunctionResults[j].outcome.ok
    /\ ~SawAccessDenied /\ ~Logged(AccessDeniedWarning)
    /\ pc = "resolved"

\* two lookups gave different dates: the scan resolved with the earlier
C17_WitnessMinimum ==
    /\ lastModifiedDate = [state |-> "resolved", value |-> DateOf(1)]
    /\ \E i, j \in DOMAIN getFunctionResults :
          /\ getFunctionResults[i].outcome.ok /\ FunctionTime(i) = 1
          /\ getFunctionResults[j].outcome.ok /\ FunctionTime(j) = MaxTime

\* the objects the listing returned
Listed ==
    IF "Contents" \in DOMAIN listing.outcome.result
    THEN {listing.outcome.result.Contents[i] :
             i \in DOMAIN listing.outcome.result.Contents}
    ELSE {}

\* the key up to its last '/', empty when it holds none
KeyDirectory(key) ==
    LET slashes == {i \in DOMAIN key : key[i] = "/"}
    IN  IF slashes = {} THEN <<>>
        ELSE SubSeq(key, 1, (CHOOSE i \in slashes : \A j \in slashes : j <= i) - 1)

\* key a comes before key b in the order of their code units
KeyBefore(a, b) ==
    \/ Len(a) < Len(b) /\ SubSeq(b, 1, Len(a)) = a
    \/ \E k \in 1..Len(a) :
          /\ k <= Len(b)
          /\ SubSeq(a, 1, k - 1) = SubSeq(b, 1, k - 1)
          /\ CharCode(a[k]) < CharCode(b[k])

\* C18: when the listing succeeded, getMostRecentObjects resolves with
\* exactly the listed objects whose directory is the directory of the
\* greatest key listed, each once; with nothing when nothing was listed.
C18_LatestDirectoryOnly ==
    (listing.state = "settled" /\ listing.outcome.ok) =>
        IF Listed = {}
        THEN objs = <<>>
        ELSE \E top \in Listed :
                /\ \A o \in Listed : o = top \/ KeyBefore(o.Key, top.Key)
                /\ {objs[i] : i \in DOMAIN objs}
                      = {o \in Listed : KeyDirectory(o.Key) = KeyDirectory(top.Key)}
                /\ Len(objs) = Cardinality({objs[i] : i \in DOMAIN objs})
                /\ \A i, j \in DOMAIN objs :
                      KeyDirectory(objs[i].Key) = KeyDirectory(objs[j].Key)

\* of three objects listed in no order, two lie in the latest directory and
\* one in an older one
C18_Witness ==
    /\ listing.state = "settled" /\ listing.outcome.ok
    /\ Cardinality(Listed) = 3 /\ Len(objs) = 2
    /\ KeyBefore(listing.outcome.result.Contents[1].Key,
                 listing.outcome.result.Contents[2].Key)
    /\ KeyBefore(listing.outcome.result.Contents[3].Key,
                 listing.outcome.result.Contents[2].Key)
    /\ \E o \in Listed : KeyDirectory(o.Key) # KeyDirectory(objs[1].Key)

\* a key nested below the latest directory is the greatest: it is alone
C18_WitnessNested ==
    /\ listing.state = "settled" /\ listing.outcome.ok
    /\ Cardinality(Listed) = 3 /\ Len(objs) = 1
    /\ \E o \in Listed : o.Key = KeyDirectory(objs[1].Key)

\* no invocation is under way
AtRest == pc \in {"idle", "resolved", "rejected"}

\* this invocation evaluated the gates and passed both
PassedBothGates ==
    /\ NonForced /\ necessityChecked /\ HashesMatch
    /\ \E t \in 0..MaxTime : EarliestFunctionTimeIs(t) /\ ~ModifiedAfter(t)

\* C19: every step that begins an invocation, whatever the one before left,
\* leaves shouldNotDeploy false; and shouldNotDeploy is true only when the
\* invocation under way or just ended passed both gates itself.
C19_FlagResetEachInvocation ==
    /\ [][(AtRest /\ ~AtRest') => ~shouldNotDeploy']_vars
    /\ [](shouldNotDeploy => (pc = "resolved" /\ PassedBothGates))

\* an invocation has ended with the flag true and the next one can begin
C19_Witness ==
    /\ pc = "resolved" /\ shouldNotDeploy /\ PassedBothGates
    /\ ENABLED Start(TRUE)
    /\ ENABLED Start(FALSE)

\* the cloudwatchLog events function fn declares, as positions in its events
LogEventsOf(fn) ==
    IF "events" \in DOMAIN fn
    THEN {k \in DOMAIN fn.events : "cloudwatchLog" \in DOMAIN fn.events[k]}
    ELSE {}

\* the calls made for function fn
CallsOf(fn) == {i \in DOMAIN pairs : pairs[i].params.functionName = fn.functionName}

\* C20: once the reconciler has made its calls, the calls made for a function
\* are as many as the cloudwatchLog events it declares, and the call for the
\* k-th of them in declaration order carries serial k, whatever the other
\* events of the function and the events of the other functions.
C20_SerialPerFunction ==
    pc \in {"fixFilters", "resolved"} =>
        \A n \in DOMAIN service.functions :
            LET fn == service.functions[n]
                events == LogEventsOf(fn)
                calls == CallsOf(fn)
            IN  /\ Cardinality(calls) = Cardinality(events)
                /\ {pairs[i].params.logSubscriptionSerialNumber : i \in calls}
                      = 1..Cardinality(events)
                /\ \A i, j \in calls :
                      i < j => pairs[i].params.logSubscriptionSerialNumber
                                  < pairs[j].params.logSubscriptionSerialNumber
                /\ \A i \in calls :
                      \E e \in events :
                          /\ Cardinality({d \in events : d <= e})
                                = pairs[i].params.logSubscriptionSerialNumber
                          /\ pairs[i].params.logGroupName =
                                SelectSeq(IF fn.events[e].cloudwatchLog.typeof = "object"
                                          THEN fn.events[e].cloudwatchLog.logGroup
                                          ELSE fn.events[e].cloudwatchLog.value,
                                          LAMBDA c : c # "\n")

\* a function binds two log groups around an event of another kind (serials
\* 1 and 2) and the next function starts again at 1 after such an event
C20_Witness ==
    /\ pc = "resolved"
    /\ \E i, j, k \in DOMAIN pairs :
          /\ i < j /\ j < k
          /\ pairs[i].params.functionName = pairs[j].params.functionName
          /\ pairs[j].params.functionName # pairs[k].params.functionName
          /\ pairs[i].params.logSubscriptionSerialNumber = 1
          /\ pairs[j].params.logSubscriptionSerialNumber = 2
          /\ pairs[k].params.logSubscriptionSerialNumber = 1
          /\ Len(pairs[i].params.functionObj.events) = 3
          /\ "cloudwatchLog" \notin DOMAIN pairs[k].params.functionObj.events[1]

====
